---- MODULE Spec2Model ----
(***************************************************************************)
(* Model of tcpkali_engine.c: the worker threads of the TCP load           *)
(* generator, their shared control pipe, the per-worker remote statistics, *)
(* the address selection and the payload write path.                       *)
(***************************************************************************)
EXTENDS Integers, Sequences, FiniteSets, TLC

(* ------------------------------ bounds -------------------------------- *)
\* number of worker threads (number_of_cpus() at run time)
NWorkers == 2
\* number of remote addresses in the pool (addresses.n_addrs)
NAddrs == 2
\* number of command bytes the coordinator writes into the control pipe
MaxCmds == 3
\* cap on the bytes all connections together transmit
MaxBytes == 1
\* the same two limits for the runs that follow one payload stream further
StreamCmds == 2
MaxStream == 4
\* pick_remote_address inputs: the size of the pool, calls per input, and the
\* attempts count of an address after a run long enough to bring
\* address_offset to 2^32
PickAddrs == 3
MaxPicks == 2
LongRunAttempts == 1431655765
\* one worker against a pool of two known addresses: commands written, bytes
\* accepted
ScenarioCmds == 24
ScenarioBytes == 1

(* ------------------------- program constants -------------------------- *)
sample_data == <<"a", "b", "c">>
sample_data_size == 3
THREAD_TERMINATING == 1
SkipThreshold == 10
\* an unsigned int is kept as two 16-bit halves, value hi * 2^16 + lo
Half == 2^16
\* a size_t difference that went k below zero, k > 0, is 2^64 - k, that is
\* 2^64 - 1 less k - 1: kept as its four 16-bit limbs, the most
\* significant first
SizeBelowWrap(k) ==
    <<Half - 1, Half - 1, Half - 1 - ((k - 1) \div Half),
      Half - 1 - ((k - 1) % Half)>>

Workers == 0 .. (NWorkers - 1)
Addrs == 0 .. (NAddrs - 1)
ConnIds == 1 .. MaxCmds     \* one slot per 'c' command at most
PeerKinds == {"any", "accepts", "refuses", "closes"}
Commands == {"c", "b", "x"}
NoConn == [owner |-> -1]
NotPicked == [off |-> -1, probes |-> 0, calls |-> 0, from |-> [hi |-> 0, lo |-> 0]]

VARIABLES
    pipe,                   \* bytes in the control pipe, oldest first
    sent,                   \* history: every byte the coordinator wrote
    pc,                     \* per worker: "loop", "control_cb" or "exited"
    control_watcher,        \* per worker: control watcher is started
    thread_flags,           \* per worker: largs->thread_flags
    address_offset,         \* per worker: largs->address_offset
    remote_stats,           \* per worker, per address: attempts and failures
    open_connections,       \* per worker: largs->open_connections
    total_data_transmitted, \* per worker: largs->total_data_transmitted
    conns,                  \* live struct connection objects, by slot
    bytes_written,          \* history per worker: bytes accepted by write()
    process_exited,         \* exit(1) was called
    limits,                 \* size of the run: commands written, bytes accepted
    peers,                  \* per address: what the remote end does
    logged,                 \* the line about a connect() that failed which the
                            \* last step wrote to stderr: <<worker, address>>,
                            \* or <<>> when it wrote none
    picked                  \* result of the last pick_remote_address (PickSpec)

vars == <<pipe, sent, pc, control_watcher, thread_flags,
          address_offset, remote_stats, open_connections,
          total_data_transmitted, conns, bytes_written, process_exited,
          limits, peers, logged, picked>>

(* ------------------------------ helpers ------------------------------- *)
Min(a, b) == IF a < b THEN a ELSE b

LiveConns == {c \in DOMAIN conns : conns[c] # NoConn}
ConnsOf(w) == {c \in LiveConns : conns[c].owner = w}

\* calloc(): the lowest free connection slot
NewConn == CHOOSE c \in DOMAIN conns :
              /\ conns[c] = NoConn
              /\ \A d \in DOMAIN conns : d < c => conns[d] # NoConn

RECURSIVE SumOver(_, _)
SumOver(f, S) ==
    IF S = {} THEN 0
    ELSE LET x == CHOOSE y \in S : TRUE IN f[x] + SumOver(f, S \ {x})

(* ------------------- unsigned int address_offset ---------------------- *)
UInt(n) == [hi |-> n \div Half, lo |-> n % Half]
\* value % n, computed on the halves
UIntMod(u, n) == (((u.hi % n) * (Half % n)) + (u.lo % n)) % n
\* value + 1, wrapping to 0 after 2^32 - 1
UIntInc(u) ==
    IF u.lo + 1 < Half THEN [hi |-> u.hi, lo |-> u.lo + 1]
    ELSE [hi |-> (u.hi + 1) % Half, lo |-> 0]
\* value - k for 0 < k <= 2^16, counted back from 2^32
UIntBelowWrap(k) == [hi |-> Half - 1, lo |-> Half - k]

(* ----------------------- pick_remote_address -------------------------- *)
\* an address is given up one attempt early
skip_at_threshold(rs) ==
    /\ rs.connection_attempts >= SkipThreshold
    /\ rs.connection_failures = rs.connection_attempts

skip_eligible(rs) ==
    /\ rs.connection_attempts > SkipThreshold
    /\ rs.connection_failures = rs.connection_attempts

\* largs->addresses.n_addrs, the length of the remote_stats table
n_addrs(stats) == Cardinality(DOMAIN stats)

RECURSIVE pick_scan(_, _, _, _)
pick_scan(stats, cursor, attempts, off) ==
    IF attempts < n_addrs(stats)
    THEN LET o == UIntMod(cursor, n_addrs(stats))
             next == UIntInc(cursor)
         IN  IF skip_eligible(stats[o])
             THEN pick_scan(stats, next, attempts + 1, o)
             ELSE [off |-> o, address_offset |-> next, probes |-> attempts + 1]
    ELSE [off |-> off, address_offset |-> cursor, probes |-> attempts]

pick_remote_address(stats, cursor) == pick_scan(stats, cursor, 0, 0)

(* --------------------- largest_contiguous_chunk ----------------------- *)
\* every chunk is taken from the start of the payload
chunk_from_start(current_offset) ==
    LET size == sample_data_size
        available == size - current_offset
    IN  IF available # 0
        THEN [position |-> 0, available_length |-> available,
              current_offset |-> current_offset]
        ELSE [position |-> 0, available_length |-> size,
              current_offset |-> 0]

\* the cursor is not taken back to 0 at the end of the payload
chunk_without_reset(current_offset) ==
    LET size == sample_data_size
    IN  IF current_offset > size
        THEN [position |-> current_offset,
              available_length |-> SizeBelowWrap(current_offset - size),
              current_offset |-> current_offset]
        ELSE LET available == size - current_offset
             IN  IF available # 0
                 THEN [position |-> current_offset,
                       available_length |-> available,
                       current_offset |-> current_offset]
                 ELSE [position |-> 0, available_length |-> size,
                       current_offset |-> current_offset]

\* available = size - *current_offset is a size_t: past the end of the
\* payload it wraps and is not 0
largest_contiguous_chunk(current_offset) ==
    LET size == sample_data_size
    IN  IF current_offset > size
        THEN [position |-> current_offset,
              available_length |-> SizeBelowWrap(current_offset - size),
              current_offset |-> current_offset]
        ELSE LET available == size - current_offset
             IN  IF available # 0
                 THEN [position |-> current_offset,
                       available_length |-> available,
                       current_offset |-> current_offset]
                 ELSE [position |-> 0, available_length |-> size,
                       current_offset |-> 0]

\* the bytes write() takes from sample_data + position
ByteAt(p) == IF p < sample_data_size THEN sample_data[p + 1] ELSE "?"
chunk_bytes(position, n) == [i \in 1 .. n |-> ByteAt(position + i - 1)]

(* ------------------------------ start_engine -------------------------- *)
Started ==
    /\ pipe = <<>>
    /\ sent = <<>>
    /\ pc = [w \in Workers |-> "loop"]
    /\ control_watcher = [w \in Workers |-> TRUE]
    /\ thread_flags = [w \in Workers |-> 0]
    /\ address_offset = [w \in Workers |-> UInt(w)]
    /\ remote_stats = [w \in Workers |-> [a \in Addrs |->
                          [connection_attempts |-> 0, connection_failures |-> 0]]]
    /\ open_connections = [w \in Workers |-> 0]
    /\ total_data_transmitted = [w \in Workers |-> 0]
    /\ conns = [c \in ConnIds |-> NoConn]
    /\ bytes_written = [w \in Workers |-> 0]
    /\ process_exited = FALSE
    /\ logged = <<>>
    /\ picked = NotPicked

Init ==
    /\ Started
    /\ limits = [cmds |-> MaxCmds, bytes |-> MaxBytes]
    /\ peers = [a \in Addrs |-> "any"]

\* the same start, for a run of fewer commands and more bytes
StreamInit ==
    /\ Started
    /\ limits = [cmds |-> StreamCmds, bytes |-> MaxStream]
    /\ peers = [a \in Addrs |-> "any"]

(* ------------------------------ coordinator --------------------------- *)
\* the caller of start_engine writes one command byte to wr_pipe
coordinator_write(b) ==
    /\ ~process_exited
    /\ Len(sent) < limits.cmds
    /\ pipe' = Append(pipe, b)
    /\ sent' = Append(sent, b)
    /\ logged' = <<>>
    /\ UNCHANGED <<pc, control_watcher, thread_flags, address_offset,
                   remote_stats, open_connections, total_data_transmitted,
                   conns, bytes_written, process_exited, limits, peers,
                   picked>>

(* --------------------------- start_new_connection --------------------- *)
\* the attempt is not counted
attempt_not_counted(rs) == rs

attempt_started(rs) ==
    [rs EXCEPT !.connection_attempts = @ + 1]

connect_failed(rs) ==
    [rs EXCEPT !.connection_failures = @ + 1]

connection_opened(open) == open + 1

\* the write cursor of a new connection is not at the start of the payload
new_connection_past_start(w, off, writable) ==
    [owner |-> w, remote |-> off, write_offset |-> 1, data_transmitted |-> 0,
     writable |-> writable, stream |-> <<>>]

new_connection(w, off, writable) ==
    [owner |-> w, remote |-> off, write_offset |-> 0, data_transmitted |-> 0,
     writable |-> writable, stream |-> <<>>]

ConnectOutcomes ==
    {"ENFILE", "socket_failed", "connected", "EINPROGRESS", "connect_failed"}

\* what socket() and connect() can return for an address, by what its
\* remote end does: "accepts" and "closes" complete the connect at once,
\* "refuses" fails it, "any" is an address nothing is known about
ConnectResults(peer) ==
    CASE peer \in {"accepts", "closes"} -> {"connected"}
      [] peer = "refuses" -> {"connect_failed"}
      [] OTHER -> ConnectOutcomes

\* every failure is reported
every_failure_logged(rs) == TRUE

\* if(conn->remote_stats->connection_failures == 1) fprintf(stderr, ...)
first_failure_logged(rs) == rs.connection_failures = 1

start_new_connection(w) ==
    LET p == pick_remote_address(remote_stats[w], address_offset[w])
        counted == attempt_started(remote_stats[w][p.off])
    IN  /\ address_offset' = [address_offset EXCEPT ![w] = p.address_offset]
        /\ \E outcome \in ConnectResults(peers[p.off]) :
            CASE outcome = "ENFILE" ->
                    \* socket() == -1, errno ENFILE: exit(1)
                    /\ remote_stats' = [remote_stats EXCEPT ![w][p.off] = counted]
                    /\ process_exited' = TRUE
                    /\ logged' = <<>>
                    /\ UNCHANGED <<conns, open_connections>>
              [] outcome = "socket_failed" ->
                    \* socket() == -1, any other errno: come back later
                    /\ remote_stats' = [remote_stats EXCEPT ![w][p.off] = counted]
                    /\ logged' = <<>>
                    /\ UNCHANGED <<conns, open_connections, process_exited>>
              [] outcome = "connect_failed" ->
                    \* connect() == -1, errno other than EINPROGRESS
                    /\ remote_stats' = [remote_stats EXCEPT
                                          ![w][p.off] = connect_failed(counted)]
                    /\ logged' = IF first_failure_logged(connect_failed(counted))
                                 THEN <<w, p.off>> ELSE <<>>
                    /\ UNCHANGED <<conns, open_connections, process_exited>>
              [] OTHER ->
                    \* connect() == 0, or -1 with EINPROGRESS
                    /\ remote_stats' = [remote_stats EXCEPT ![w][p.off] = counted]
                    /\ conns' = [conns EXCEPT ![NewConn] =
                                   new_connection(w, p.off, outcome = "connected")]
                    /\ open_connections' = [open_connections EXCEPT
                                   ![w] = connection_opened(@)]
                    /\ logged' = <<>>
                    /\ UNCHANGED process_exited

(* ------------------------------- control_cb --------------------------- *)
\* ev_run finds the control pipe readable and calls the watcher's callback
control_dispatch(w) ==
    /\ ~process_exited
    /\ pc[w] = "loop"
    /\ control_watcher[w]
    /\ pipe # <<>>
    /\ pc' = [pc EXCEPT ![w] = "control_cb"]
    /\ logged' = <<>>
    /\ UNCHANGED <<pipe, sent, control_watcher, thread_flags,
                   address_offset, remote_stats, open_connections,
                   total_data_transmitted, conns, bytes_written,
                   process_exited, limits, peers,
                   picked>>

\* the byte is read but stays in the pipe
read_control_peek(p) == [c |-> Head(p), rest |-> p]

\* read(w->fd, &c, 1) == 1
read_control(p) == [c |-> Head(p), rest |-> Tail(p)]

set_flag(flags, bit) == IF (flags \div bit) % 2 = 1 THEN flags ELSE flags + bit

\* the control watcher is left started
control_watcher_kept(started) == started

\* ev_io_stop(EV_A_ w) on the control watcher
control_watcher_stopped(started) == FALSE

\* a byte that is not 'c' is taken for 'b'
switch_without_default(c) == IF c = "c" THEN "c" ELSE "b"

\* switch(c): the arm taken for the byte read
switch_arm(c) == IF c \in {"c", "b"} THEN c ELSE "default"

\* the callback from the read onwards; the read waits for a byte
control_cb(w) ==
    /\ ~process_exited
    /\ pc[w] = "control_cb"
    /\ pipe # <<>>
    /\ LET r == read_control(pipe)
       IN  /\ pipe' = r.rest
           /\ pc' = [pc EXCEPT ![w] = "loop"]
           /\ CASE switch_arm(r.c) = "c" ->
                    /\ start_new_connection(w)
                    /\ UNCHANGED <<thread_flags, control_watcher>>
                [] switch_arm(r.c) = "b" ->
                    /\ thread_flags' = [thread_flags EXCEPT
                                          ![w] = set_flag(@, THREAD_TERMINATING)]
                    /\ control_watcher' = [control_watcher EXCEPT
                                          ![w] = control_watcher_stopped(@)]
                    /\ logged' = <<>>
                    /\ UNCHANGED <<address_offset, remote_stats, conns,
                                   open_connections, process_exited>>
                [] OTHER ->
                    /\ logged' = <<>>
                    /\ UNCHANGED <<thread_flags, control_watcher, address_offset,
                                   remote_stats, conns, open_connections,
                                   process_exited>>
    /\ UNCHANGED <<sent, total_data_transmitted, bytes_written, limits, peers,
                   picked>>

\* read() != 1: logged, the callback returns
control_cb_read_failed(w) ==
    /\ ~process_exited
    /\ pc[w] = "control_cb"
    /\ pc' = [pc EXCEPT ![w] = "loop"]
    /\ logged' = <<>>
    /\ UNCHANGED <<pipe, sent, control_watcher, thread_flags,
                   address_offset, remote_stats, open_connections,
                   total_data_transmitted, conns, bytes_written,
                   process_exited, limits, peers,
                   picked>>

(* ------------------------------ connection_cb ------------------------- *)
\* the kernel reports the socket writable: the connect finished, or the
\* peer read and the send buffer has space again
socket_writable(c) ==
    /\ ~process_exited
    /\ conns[c] # NoConn
    /\ ~conns[c].writable
    /\ conns' = [conns EXCEPT ![c].writable = TRUE]
    /\ logged' = <<>>
    /\ UNCHANGED <<pipe, sent, pc, control_watcher, thread_flags,
                   address_offset, remote_stats, open_connections,
                   total_data_transmitted, bytes_written, process_exited,
                   limits, peers, picked>>

\* the termination flag is not looked at
terminating_ignored(flags) == FALSE

terminating(flags) == (flags \div THREAD_TERMINATING) % 2 = 1

\* the connection's byte count is dropped
fold_skipped(total, conn) == total

fold_transmitted(total, conn) == total + conn.data_transmitted

\* the count is not decremented
connection_still_counted(open) == open

connection_released(open) == open - 1

close_connection(cs, c) == [cs EXCEPT ![c] = NoConn]

\* a broken pipe is not counted against the address
peer_close_not_counted(rs) == rs

peer_closed(rs) == [rs EXCEPT !.connection_failures = @ + 1]

\* conn->write_offset += wrote; conn->data_transmitted += wrote
advance(conn, off, wrote) ==
    [conn EXCEPT !.write_offset = off + wrote,
                 !.data_transmitted = @ + wrote]

\* whether the socket is still writable after a write(): a remote end
\* known to accept or to close reads what it is sent, so the send buffer
\* does not fill; otherwise the buffer may be full until the peer reads
StillWritable(peer) == IF peer = "any" THEN BOOLEAN ELSE {TRUE}

connection_cb(w, c) ==
    /\ ~process_exited
    /\ pc[w] = "loop"
    /\ conns[c] # NoConn
    /\ conns[c].owner = w
    /\ conns[c].writable
    /\ IF terminating(thread_flags[w])
       THEN /\ total_data_transmitted' = [total_data_transmitted EXCEPT
                                   ![w] = fold_transmitted(@, conns[c])]
            /\ open_connections' = [open_connections EXCEPT
                                   ![w] = connection_released(@)]
            /\ conns' = close_connection(conns, c)
            /\ UNCHANGED <<remote_stats, bytes_written>>
       ELSE LET ch == largest_contiguous_chunk(conns[c].write_offset)
                room == limits.bytes - SumOver(bytes_written, Workers)
            IN  \/ \* write() accepted wrote bytes
                   \E wrote \in 1 .. Min(ch.available_length, room),
                      still \in StillWritable(peers[conns[c].remote]) :
                       /\ conns' = [conns EXCEPT ![c] =
                            [advance(conns[c], ch.current_offset, wrote) EXCEPT
                               !.stream = @ \o chunk_bytes(ch.position, wrote),
                               !.writable = still]]
                       /\ bytes_written' = [bytes_written EXCEPT ![w] = @ + wrote]
                       /\ UNCHANGED <<remote_stats, open_connections,
                                      total_data_transmitted>>
                \/ \* write() == -1, errno EPIPE
                   /\ peers[conns[c].remote] \in {"any", "closes"}
                   /\ remote_stats' = [remote_stats EXCEPT
                            ![w][conns[c].remote] = peer_closed(@)]
                   /\ total_data_transmitted' = [total_data_transmitted EXCEPT
                            ![w] = fold_transmitted(@, conns[c])]
                   /\ open_connections' = [open_connections EXCEPT
                            ![w] = connection_released(@)]
                   /\ conns' = close_connection(conns, c)
                   /\ UNCHANGED bytes_written
                \/ \* write() == -1, any other errno (EAGAIN with the send
                   \* buffer full): nothing but the chunk computation's
                   \* cursor reset
                   \E still \in StillWritable(peers[conns[c].remote]) :
                   /\ conns' = [conns EXCEPT
                                  ![c].write_offset = ch.current_offset,
                                  ![c].writable = still]
                   /\ UNCHANGED <<remote_stats, open_connections,
                                  total_data_transmitted, bytes_written>>
    /\ logged' = <<>>
    /\ UNCHANGED <<pipe, sent, pc, control_watcher, thread_flags,
                   address_offset, process_exited, limits, peers,
                   picked>>

(* ----------------------- single_engine_loop_thread -------------------- *)
\* the control watcher does not keep the loop alive
no_connection_watcher(w) == ConnsOf(w) = {}

\* the loop has no active watcher left: neither the control watcher nor a
\* connection's
no_active_watcher(w) ==
    /\ ~control_watcher[w]
    /\ ConnsOf(w) = {}

\* ev_run returns once no watcher is active; the thread reports and ends
loop_exit(w) ==
    /\ ~process_exited
    /\ pc[w] = "loop"
    /\ no_active_watcher(w)
    /\ pc' = [pc EXCEPT ![w] = "exited"]
    /\ logged' = <<>>
    /\ UNCHANGED <<pipe, sent, control_watcher, thread_flags,
                   address_offset, remote_stats, open_connections,
                   total_data_transmitted, conns, bytes_written,
                   process_exited, limits, peers,
                   picked>>

(* ---------------------------- specifications -------------------------- *)
Next ==
    \/ \E b \in Commands : coordinator_write(b)
    \/ \E w \in Workers : control_dispatch(w)
    \/ \E w \in Workers : control_cb(w)
    \/ \E w \in Workers : control_cb_read_failed(w)
    \/ \E c \in DOMAIN conns : socket_writable(c)
    \/ \E w \in Workers, c \in DOMAIN conns : connection_cb(w, c)
    \/ \E w \in Workers : loop_exit(w)

Spec == Init /\ [][Next]_vars

\* each event loop keeps running its callbacks: a callback whose event is
\* pending is eventually run, a read that can return eventually returns
Fairness ==
    /\ \A w \in Workers : WF_vars(control_dispatch(w))
    /\ \A w \in Workers : SF_vars(control_cb(w))
    /\ \A w \in Workers : WF_vars(loop_exit(w))
    /\ \A w \in Workers, c \in ConnIds : WF_vars(connection_cb(w, c))

FairSpec == Spec /\ Fairness

StreamSpec == StreamInit /\ [][Next]_vars

(* ------------- pick_remote_address on drawn worker states ------------- *)
Entry(a, f) == [connection_attempts |-> a, connection_failures |-> f]

PickPool == 0 .. (PickAddrs - 1)

\* Worker 0 about the time every address has been tried SkipThreshold + 1
\* times: each address tried SkipThreshold or SkipThreshold + 1 times, with
\* no failure or with nothing else.
EarlyInputs ==
    {[cursor |-> UInt((SkipThreshold + 1) * PickAddrs + k), stats |-> st] :
        k \in PickPool,
        st \in [PickPool -> {Entry(SkipThreshold, 0),
                          Entry(SkipThreshold, SkipThreshold),
                          Entry(SkipThreshold + 1, 0),
                          Entry(SkipThreshold + 1, SkipThreshold + 1)}]}

\* Worker 0 after a long run, address_offset within PickAddrs below 2^32: an
\* address that kept failing was given up after SkipThreshold + 1 attempts,
\* the others were tried LongRunAttempts times, and the last call returned
\* the address before the cursor; or every address kept failing.
LateInputs ==
    {in \in {[cursor |-> UIntBelowWrap(k + 1), stats |-> st] :
                k \in PickPool,
                st \in [PickPool -> {Entry(SkipThreshold + 1, SkipThreshold + 1),
                                  Entry(LongRunAttempts, 0)}]} :
        LET last == (UIntMod(in.cursor, PickAddrs) + PickAddrs - 1) % PickAddrs
        IN  in.stats[last] = Entry(LongRunAttempts, 0)}
    \cup
    {[cursor |-> UIntBelowWrap(k + 1),
      stats |-> [a \in PickPool |-> Entry(LongRunAttempts, LongRunAttempts)]] :
        k \in PickPool}

PickInputs == EarlyInputs \cup LateInputs

PickInit ==
    /\ pipe = <<>>
    /\ sent = <<>>
    /\ pc = [w \in Workers |-> "loop"]
    /\ control_watcher = [w \in Workers |-> TRUE]
    /\ thread_flags = [w \in Workers |-> 0]
    /\ open_connections = [w \in Workers |-> 0]
    /\ total_data_transmitted = [w \in Workers |-> 0]
    /\ conns = [c \in ConnIds |-> NoConn]
    /\ bytes_written = [w \in Workers |-> 0]
    /\ process_exited = FALSE
    /\ limits = [cmds |-> 0, bytes |-> 0]
    /\ peers = [a \in PickPool |-> "any"]
    /\ logged = <<>>
    /\ picked = NotPicked
    /\ \E in \in PickInputs :
        /\ address_offset = [w \in Workers |-> IF w = 0 THEN in.cursor ELSE UInt(w)]
        /\ remote_stats = [w \in Workers |->
              IF w = 0 THEN in.stats
              ELSE [a \in PickPool |-> Entry(0, 0)]]

\* one call of pick_remote_address by worker 0
pick_step ==
    /\ picked.calls < MaxPicks
    /\ LET p == pick_remote_address(remote_stats[0], address_offset[0])
       IN  /\ picked' = [off |-> p.off, probes |-> p.probes,
                         calls |-> picked.calls + 1, from |-> address_offset[0]]
           /\ address_offset' = [address_offset EXCEPT ![0] = p.address_offset]
    /\ logged' = <<>>
    /\ UNCHANGED <<pipe, sent, pc, control_watcher, thread_flags, remote_stats,
                   open_connections, total_data_transmitted, conns,
                   bytes_written, process_exited, limits,
                   peers>>

PickNext == pick_step

PickSpec == PickInit /\ [][PickNext]_vars

(* ------------- one worker against a pool of two addresses ------------- *)
ScenarioPool == 0 .. 1

\* every address of the pool accepts connections, refuses them, or accepts
\* them and closes them at once
ScenarioInit ==
    /\ pipe = <<>>
    /\ sent = <<>>
    /\ pc = [w \in Workers |-> "loop"]
    /\ control_watcher = [w \in Workers |-> TRUE]
    /\ thread_flags = [w \in Workers |-> 0]
    /\ address_offset = [w \in Workers |-> UInt(w)]
    /\ remote_stats = [w \in Workers |-> [a \in ScenarioPool |-> Entry(0, 0)]]
    /\ open_connections = [w \in Workers |-> 0]
    /\ total_data_transmitted = [w \in Workers |-> 0]
    /\ conns = [c \in 1 .. ScenarioCmds |-> NoConn]
    /\ bytes_written = [w \in Workers |-> 0]
    /\ process_exited = FALSE
    /\ limits = [cmds |-> ScenarioCmds, bytes |-> ScenarioBytes]
    /\ peers \in [ScenarioPool -> PeerKinds \ {"any"}]
    /\ logged = <<>>
    /\ picked = NotPicked

\* the coordinator asks for the next connection once worker 0 has taken the
\* last command and has seen the connections closed by their remote end
scenario_write ==
    /\ pipe = <<>>
    /\ \A c \in ConnsOf(0) : peers[conns[c].remote] # "closes"
    /\ coordinator_write("c")

ScenarioNext ==
    \/ scenario_write
    \/ control_dispatch(0)
    \/ control_cb(0)
    \/ \E c \in DOMAIN conns : connection_cb(0, c)

ScenarioSpec == ScenarioInit /\ [][ScenarioNext]_vars

(* ------------- connection attempts from drawn worker states ----------- *)
\* worker 0 in one of the states of PickInputs, with commands still to come
DrawnInit ==
    /\ pipe = <<>>
    /\ sent = <<>>
    /\ pc = [w \in Workers |-> "loop"]
    /\ control_watcher = [w \in Workers |-> TRUE]
    /\ thread_flags = [w \in Workers |-> 0]
    /\ open_connections = [w \in Workers |-> 0]
    /\ total_data_transmitted = [w \in Workers |-> 0]
    /\ conns = [c \in ConnIds |-> NoConn]
    /\ bytes_written = [w \in Workers |-> 0]
    /\ process_exited = FALSE
    /\ limits = [cmds |-> MaxPicks, bytes |-> 0]
    /\ peers = [a \in PickPool |-> "any"]
    /\ logged = <<>>
    /\ picked = NotPicked
    /\ \E in \in PickInputs :
        /\ address_offset = [w \in Workers |-> IF w = 0 THEN in.cursor ELSE UInt(w)]
        /\ remote_stats = [w \in Workers |->
              IF w = 0 THEN in.stats
              ELSE [a \in PickPool |-> Entry(0, 0)]]

DrawnSpec == DrawnInit /\ [][ScenarioNext]_vars

(* ============================== claims ================================ *)
terminated(w) == thread_flags[w] % 2 = 1

AttemptsOf(w) ==
    SumOver([a \in Addrs |-> remote_stats[w][a].connection_attempts], Addrs)
FailuresOf(w) ==
    SumOver([a \in Addrs |-> remote_stats[w][a].connection_failures], Addrs)

RECURSIVE Count(_, _)
Count(seq, b) ==
    IF seq = <<>> THEN 0
    ELSE (IF Head(seq) = b THEN 1 ELSE 0) + Count(Tail(seq), b)

\* the bytes read from the pipe so far, in the order they were written
Dequeued == SubSeq(sent, 1, Len(sent) - Len(pipe))

\* C1: every Health entry of every worker has 0 <= failures <= attempts.
HealthBounded ==
    \A w \in Workers, a \in Addrs :
        /\ 0 <= remote_stats[w][a].connection_failures
        /\ remote_stats[w][a].connection_failures
              <= remote_stats[w][a].connection_attempts

\* a worker, not terminating, that tried one address twice and failed both
\* times, once on a broken pipe after writing bytes
HealthBoundedWitness ==
    \E w \in Workers :
        /\ ~terminated(w)
        /\ total_data_transmitted[w] > 0
        /\ ConnsOf(w) = {}
        /\ \E a \in Addrs : remote_stats[w][a] = Entry(2, 2)

\* C2: whenever some address of the pool is not skip-eligible in the
\* worker's Health table, the address pick_remote_address returns is not
\* skip-eligible, whatever the cursor was.
PickAvoidsSkipEligible ==
    (picked.calls > 0 /\ \E a \in PickPool : ~skip_eligible(remote_stats[0][a]))
        => ~skip_eligible(remote_stats[0][picked.off])

\* C3: each worker's open_connections is the number of connections it has
\* created and not yet closed, and is never negative.
OpenCountExact ==
    \A w \in Workers :
        /\ open_connections[w] = Cardinality(ConnsOf(w))
        /\ open_connections[w] >= 0

\* a worker that closed one connection on a broken pipe and still owns another
OpenCountExactWitness ==
    \E w \in Workers :
        /\ ~terminated(w)
        /\ open_connections[w] = 1
        /\ FailuresOf(w) = 1
        /\ total_data_transmitted[w] > 0

\* what belongs to worker v alone
LocalState(v) ==
    <<pc[v], control_watcher[v], thread_flags[v], address_offset[v],
      remote_stats[v], open_connections[v], total_data_transmitted[v],
      [c \in ConnIds |-> IF conns[c] # NoConn /\ conns[c].owner = v
                         THEN conns[c] ELSE NoConn]>>

EachByteOnce ==
    /\ Len(pipe) <= Len(sent)
    /\ sent = Dequeued \o pipe
    /\ Count(Dequeued, "c") = SumOver([w \in Workers |-> AttemptsOf(w)], Workers)
    /\ Count(Dequeued, "b") = Cardinality({w \in Workers : terminated(w)})

DequeueStep ==
    (pipe' # pipe) =>
        \/ \E b \in Commands : pipe' = Append(pipe, b)
        \/ /\ pipe # <<>>
           /\ pipe' = Tail(pipe)
           /\ \E w \in Workers :
                /\ pc[w] = "control_cb"
                /\ pc'[w] = "loop"
                /\ \A v \in Workers \ {w} : LocalState(v)' = LocalState(v)

\* C4: every command byte is consumed by exactly one worker, in the order
\* written: a read takes the oldest byte and only the reading worker's state
\* changes, each 'c' read is one connection attempt, each 'b' read is one
\* more terminating worker.
ControlBytesConsumedOnce == []EachByteOnce /\ [][DequeueStep]_vars

\* two workers were woken for the same single 'c': one read it and made the
\* attempt, the other is in its callback with the pipe empty
ControlBytesConsumedOnceWitness ==
    \E w, v \in Workers :
        /\ w # v
        /\ sent = <<"c">>
        /\ pipe = <<>>
        /\ AttemptsOf(v) = 1
        /\ pc[w] = "control_cb"

\* the coordinator has written N 'c' bytes, then one 'b' per worker, and
\* nothing else
ShutdownRequested ==
    /\ Len(sent) = limits.cmds
    /\ Len(sent) > NWorkers
    /\ \A i \in 1 .. Len(sent) :
          sent[i] = (IF i <= Len(sent) - NWorkers THEN "c" ELSE "b")

AllWorkersExited ==
    \A w \in Workers :
        /\ terminated(w)
        /\ ConnsOf(w) = {}
        /\ pc[w] = "exited"

\* C5: after N 'c' bytes and one 'b' per worker, every worker eventually
\* has its termination flag set, owns no connection and has left its event
\* loop (the process not having ended on a full socket table).
ShutdownCompletes ==
    ShutdownRequested ~> (AllWorkersExited \/ process_exited)

\* C6: a worker that has left its loop reports as total_data_transmitted
\* the bytes written on all the connections it ever created; once all have
\* left, the totals add up to all the bytes written.
ExitTotalsExact ==
    /\ \A w \in Workers :
          pc[w] = "exited" => total_data_transmitted[w] = bytes_written[w]
    /\ (\A w \in Workers : pc[w] = "exited") =>
          SumOver(total_data_transmitted, Workers) = SumOver(bytes_written, Workers)

\* every worker has left, and bytes were written before that
ExitTotalsExactWitness ==
    /\ \A w \in Workers : pc[w] = "exited"
    /\ SumOver(bytes_written, Workers) = MaxBytes

\* C7: the k-th byte a connection has written (k from 0) is
\* payload[k mod L], whatever the sizes of the writes.
StreamRepeatsPayload ==
    \A c \in LiveConns :
        /\ Len(conns[c].stream) = conns[c].data_transmitted
        /\ \A k \in 0 .. (Len(conns[c].stream) - 1) :
              conns[c].stream[k + 1] = sample_data[(k % sample_data_size) + 1]

\* a connection that wrote past the end of the payload, the last write
\* starting inside it
StreamRepeatsPayloadWitness ==
    \E c \in LiveConns :
        /\ Len(conns[c].stream) = sample_data_size + 1
        /\ conns[c].write_offset = 1

\* C8 as claimed: a connection that has written exactly L bytes in all has
\* its write cursor back at 0, and 0 <= write_offset <= L always.
CursorBackAtZero ==
    \A c \in LiveConns :
        /\ 0 <= conns[c].write_offset
        /\ conns[c].write_offset <= sample_data_size
        /\ conns[c].data_transmitted = sample_data_size
              => conns[c].write_offset = 0

CursorInRange ==
    \A c \in LiveConns :
        /\ 0 <= conns[c].write_offset
        /\ conns[c].write_offset <= sample_data_size
        /\ conns[c].write_offset % sample_data_size
              = conns[c].data_transmitted % sample_data_size
        /\ conns[c].write_offset = sample_data_size =>
              largest_contiguous_chunk(conns[c].write_offset)
                 = [position |-> 0, available_length |-> sample_data_size,
                    current_offset |-> 0]

WriteReachingEnd ==
    \A c \in ConnIds :
        (/\ conns[c] # NoConn
         /\ conns'[c] # NoConn
         /\ conns[c].data_transmitted < sample_data_size
         /\ conns'[c].data_transmitted = sample_data_size)
            => conns'[c].write_offset = sample_data_size

\* C8 as the code has it: the write that brings the total to exactly L
\* leaves the cursor at L, and the next chunk computation takes it from
\* there to 0 with the whole payload as the chunk; the cursor equals the
\* bytes written modulo L and 0 <= write_offset <= L always.
CursorWrapsAtNextChunk == []CursorInRange /\ [][WriteReachingEnd]_vars

\* a connection right after the write that completed the payload
CursorWrapsAtNextChunkWitness ==
    \E c \in LiveConns :
        /\ conns[c].data_transmitted = sample_data_size
        /\ conns[c].write_offset = sample_data_size

TeardownOnly ==
    \A w \in Workers : terminated(w) =>
        /\ bytes_written'[w] = bytes_written[w]
        /\ \A c \in ConnIds : (conns[c] # NoConn /\ conns[c].owner = w) =>
              \/ /\ conns'[c] = NoConn
                 /\ total_data_transmitted'[w]
                       = total_data_transmitted[w] + conns[c].data_transmitted
                 /\ open_connections'[w] = open_connections[w] - 1
              \/ /\ conns'[c] # NoConn
                 /\ conns'[c].write_offset = conns[c].write_offset
                 /\ conns'[c].data_transmitted = conns[c].data_transmitted
                 /\ conns'[c].stream = conns[c].stream

\* C9: once a worker's termination flag is set, an event on one of its
\* connections only folds the byte count into the worker's total,
\* decrements open_connections and closes the connection; no connection of
\* that worker writes again.
NoWriteAfterTermination == [][TeardownOnly]_vars

\* a terminating worker that tore down a connection which had written bytes
NoWriteAfterTerminationWitness ==
    \E w \in Workers :
        /\ terminated(w)
        /\ ConnsOf(w) = {}
        /\ FailuresOf(w) = 0
        /\ total_data_transmitted[w] > 0

TerminatedStopsListening ==
    /\ \A w \in Workers : terminated(w) =>
          /\ ~control_watcher[w]
          /\ pc[w] # "control_cb"
    /\ Cardinality({w \in Workers : terminated(w)}) = Count(Dequeued, "b")
    /\ Count(sent, "b") < NWorkers => \E w \in Workers : ~terminated(w)

TerminatedStaysQuiet ==
    \A w \in Workers : terminated(w) =>
        /\ terminated(w)'
        /\ AttemptsOf(w)' = AttemptsOf(w)
        /\ ConnsOf(w)' \subseteq ConnsOf(w)
        /\ (pipe' # pipe /\ pipe # <<>> /\ pipe' = Tail(pipe)) => pc'[w] = pc[w]

\* C10: a worker that has consumed a 'b' consumes no further control byte
\* and creates no further connection; its flag stays set, and k consumed
\* 'b' bytes are k distinct terminating workers.
TerminationIsFinal == []TerminatedStopsListening /\ [][TerminatedStaysQuiet]_vars

\* one worker is terminating and the other consumed a 'c' written after
\* the 'b'
TerminationIsFinalWitness ==
    \E w, v \in Workers :
        /\ terminated(w)
        /\ ~terminated(v)
        /\ sent = <<"b", "c">>
        /\ pipe = <<>>
        /\ AttemptsOf(v) = 1

\* C11: no worker blocks outside its event-loop wait: a worker whose control
\* callback was called comes back to its event loop, also when another
\* worker took the byte and the coordinator writes nothing more (or the
\* process has ended on a full socket table).
ControlHandlerReturns ==
    \A w \in Workers :
        (pc[w] = "control_cb") ~> (pc[w] = "loop" \/ process_exited)

\* worker 0's attempts in the two-address scenario
ScenarioAttempts ==
    remote_stats[0][0].connection_attempts + remote_stats[0][1].connection_attempts

\* address r refuses connections and the other address accepts them
OneRefuses(r) == peers[r] = "refuses" /\ peers[1 - r] = "accepts"

\* a step in which worker 0 made a connection attempt to address a
AttemptTo(a) ==
    remote_stats'[0][a].connection_attempts
        = remote_stats[0][a].connection_attempts + 1

\* C12 as claimed: one worker, one address accepting and one refusing:
\* after 12 attempts split evenly the refusing address has attempts > 10
\* and failures = attempts, and every later selection returns the address
\* that accepts.
TwelveAttemptsGiveUp ==
    /\ [](\A r \in ScenarioPool :
            (/\ OneRefuses(r)
             /\ ScenarioAttempts = 12
             /\ remote_stats[0][r].connection_attempts
                   = remote_stats[0][1 - r].connection_attempts)
                => skip_eligible(remote_stats[0][r]))
    /\ [][\A r \in ScenarioPool :
            (OneRefuses(r) /\ ScenarioAttempts >= 12) => ~AttemptTo(r)]_vars

RefusedAfterEleven ==
    \A r \in ScenarioPool : OneRefuses(r) =>
        LET bad == remote_stats[0][r]
            good == remote_stats[0][1 - r]
        IN  /\ bad.connection_failures = bad.connection_attempts
            /\ good.connection_failures = 0
            /\ bad.connection_attempts <= SkipThreshold + 1
            /\ skip_eligible(bad) <=> bad.connection_attempts = SkipThreshold + 1
            /\ ScenarioAttempts >= 2 * (SkipThreshold + 1) => skip_eligible(bad)
            /\ ~skip_eligible(bad) =>
                  \/ bad.connection_attempts = good.connection_attempts
                  \/ bad.connection_attempts = good.connection_attempts + 1 - 2 * r

OnlyTheGoodOneAfterwards ==
    \A r \in ScenarioPool :
        (OneRefuses(r) /\ skip_eligible(remote_stats[0][r])) =>
            /\ remote_stats'[0][r] = remote_stats[0][r]
            /\ remote_stats'[0] # remote_stats[0] => AttemptTo(1 - r)

\* C12 as the code has it: the attempts alternate between the two addresses
\* until the refusing one has been tried 11 times, that is after 22
\* attempts split evenly (21 when the refusing address is the first of the
\* pool); from then on it has attempts = failures = 11 > 10 and every later
\* selection returns the address that accepts.
TwentyTwoAttemptsGiveUp == []RefusedAfterEleven /\ [][OnlyTheGoodOneAfterwards]_vars

\* 24 attempts made: 11 refused, 13 connections open to the other address
TwentyTwoAttemptsGiveUpWitness ==
    \E r \in ScenarioPool :
        /\ OneRefuses(r)
        /\ ScenarioAttempts = 2 * (SkipThreshold + 1) + 2
        /\ remote_stats[0][r] = Entry(SkipThreshold + 1, SkipThreshold + 1)
        /\ open_connections[0] = SkipThreshold + 3

\* a step that creates a connection whose connect() is still in progress
InProgressOpens ==
    \A c \in ConnIds :
        (conns[c] = NoConn /\ conns'[c] # NoConn /\ ~conns'[c].writable) =>
            LET w == conns'[c].owner
                a == conns'[c].remote
            IN  /\ conns'[c] = [owner |-> w, remote |-> a, write_offset |-> 0,
                                data_transmitted |-> 0, writable |-> FALSE,
                                stream |-> <<>>]
                /\ remote_stats'[w] = [remote_stats[w] EXCEPT
                                         ![a].connection_attempts = @ + 1]
                /\ open_connections'[w] = open_connections[w] + 1
                /\ logged' = <<>>

\* the step in which a connection writes its first bytes
FirstWriteFromStart ==
    \A c \in ConnIds :
        (/\ conns[c] # NoConn
         /\ conns'[c] # NoConn
         /\ conns[c].data_transmitted = 0
         /\ conns'[c].data_transmitted > 0)
            => /\ conns[c].writable
               /\ ~terminated(conns[c].owner)
               /\ conns'[c].stream
                     = SubSeq(sample_data, 1, conns'[c].data_transmitted)

\* a connection that has written nothing yet is offered the payload from
\* its first byte
FreshAtStart ==
    \A c \in LiveConns :
        conns[c].data_transmitted = 0 =>
            /\ conns[c].write_offset = 0
            /\ largest_contiguous_chunk(conns[c].write_offset).position = 0

\* C13: a connect() that returns EINPROGRESS is not a failure: the attempt
\* is counted, no failure is, the new connection is bound to the picked
\* address with write cursor 0 and no bytes sent, open_connections grows by
\* one, and the first write of that connection, on a write-readiness event
\* with the worker not terminating, starts at payload offset 0.
InProgressIsNotAnError ==
    /\ []FreshAtStart
    /\ [][InProgressOpens /\ FirstWriteFromStart]_vars

\* a worker whose only attempts are two connections to one address, one
\* still connecting and one that has written its first byte
InProgressIsNotAnErrorWitness ==
    \E w \in Workers, c, d \in LiveConns :
        /\ ConnsOf(w) = {c, d}
        /\ ~conns[c].writable
        /\ conns[c].data_transmitted = 0
        /\ conns[d].stream = <<"a">>
        /\ conns[d].remote = conns[c].remote
        /\ remote_stats[w][conns[c].remote] = Entry(2, 0)
        /\ open_connections[w] = 2

\* value + k, wrapping at 2^32
RECURSIVE UIntPlus(_, _)
UIntPlus(u, k) == IF k = 0 THEN u ELSE UIntPlus(UIntInc(u), k - 1)

\* the first index at or after start, going round the pool, that is in S
RECURSIVE FirstFrom(_, _, _)
FirstFrom(start, S, n) ==
    IF start % n \in S THEN start % n ELSE FirstFrom(start + 1, S, n)

\* C14: with every address skip-eligible pick_remote_address makes exactly
\* N probes, returns the last one scanned, index (cursor + N - 1) mod N for
\* the cursor at entry, and leaves the cursor advanced by N; otherwise it
\* returns the first address at or after the cursor, going round modulo N,
\* that is not skip-eligible, and leaves the cursor one past that index.
PickScansFromCursor ==
    picked.calls > 0 =>
        LET N == PickAddrs
            start == UIntMod(picked.from, N)
            healthy == {a \in PickPool : ~skip_eligible(remote_stats[0][a])}
        IN  IF healthy = {}
            THEN /\ picked.probes = N
                 /\ picked.off = (start + N - 1) % N
                 /\ address_offset[0] = UIntPlus(picked.from, N)
            ELSE /\ picked.off = FirstFrom(start, healthy, N)
                 /\ UIntMod(address_offset[0], N) = (picked.off + 1) % N

\* worker w's live connections bound to address a
ConnsTo(w, a) == {c \in ConnsOf(w) : conns[c].remote = a}

\* C15 as claimed: an address is skipped only if it was tried more than 10
\* times and no connect to it ever completed: an address whose connects
\* complete (connections established and later closed, e.g. by the peer)
\* is never skip-eligible.
CompletedConnectNeverSkipped ==
    \A a \in ScenarioPool :
        (/\ peers[a] \in {"accepts", "closes"}
         /\ remote_stats[0][a].connection_attempts > 0)
            => ~skip_eligible(remote_stats[0][a])

FailuresAreRefusalsAndResets ==
    \A a \in ScenarioPool :
        LET rs == remote_stats[0][a]
        IN  /\ rs.connection_failures
                 = (IF peers[a] = "accepts" THEN 0
                    ELSE rs.connection_attempts - Cardinality(ConnsTo(0, a)))
            /\ skip_eligible(rs) =>
                  /\ rs.connection_attempts > SkipThreshold
                  /\ ConnsTo(0, a) = {}
                  /\ peers[a] \in {"refuses", "closes"}

FailureCounted ==
    \A a \in ScenarioPool :
        LET rs == remote_stats[0][a]
        IN  remote_stats'[0][a].connection_failures # rs.connection_failures =>
              /\ remote_stats'[0][a].connection_failures
                    = rs.connection_failures + 1
              /\ \/ \* connect() failed
                    /\ peers[a] = "refuses"
                    /\ AttemptTo(a)
                    /\ conns' = conns
                 \/ \* a write on an established connection met a broken pipe
                    /\ peers[a] = "closes"
                    /\ ~AttemptTo(a)
                    /\ \E c \in ConnsTo(0, a) : conns' = close_connection(conns, c)

\* C15 as the code has it: an address is skipped only if it was tried more
\* than 10 times and every attempt was counted as a failure, which happens
\* when connect() fails and also when an established connection is closed
\* by the peer and a write meets a broken pipe; an address with a live
\* connection, or whose connections are never reset, is never
\* skip-eligible.
SkippedOnlyWhenAllCounted ==
    []FailuresAreRefusalsAndResets /\ [][FailureCounted]_vars

\* an address that accepted 11 connections, took a byte on one of them and
\* closed every one, next to an address that refuses
SkippedOnlyWhenAllCountedWitness ==
    \E a \in ScenarioPool :
        /\ peers[a] = "closes"
        /\ peers[1 - a] = "refuses"
        /\ remote_stats[0][a] = Entry(SkipThreshold + 1, SkipThreshold + 1)
        /\ total_data_transmitted[0] = ScenarioBytes

\* a step in which worker w counted an attempt and a failure against
\* address a: its connect() failed
ConnectError(w, a) ==
    /\ remote_stats'[w][a].connection_attempts
          = remote_stats[w][a].connection_attempts + 1
    /\ remote_stats'[w][a].connection_failures
          # remote_stats[w][a].connection_failures

ConnectErrorCounted ==
    \A w \in Workers, a \in Addrs :
        /\ ConnectError(w, a) =>
              /\ remote_stats'[w] = [remote_stats[w] EXCEPT ![a] =
                    Entry(@.connection_attempts + 1, @.connection_failures + 1)]
              /\ conns' = conns
              /\ open_connections' = open_connections
              /\ logged' = (IF remote_stats[w][a].connection_failures = 0
                            THEN <<w, a>> ELSE <<>>)
        /\ logged' = <<w, a>> =>
              /\ ConnectError(w, a)
              /\ remote_stats[w][a].connection_failures = 0
        /\ remote_stats'[w][a].connection_failures
              >= remote_stats[w][a].connection_failures

\* C16: a connect() error other than EINPROGRESS counts one attempt and
\* exactly one failure against the address, creates no connection and
\* leaves open_connections as it was; it is logged only when it is the
\* first failure recorded against that address by that worker, and as the
\* failures counter never decreases, at most once per address and worker.
ConnectErrorLoggedOnce == [][ConnectErrorCounted]_vars

\* a worker that has just logged a failed connect to an address to which
\* it holds a connection from an earlier attempt
ConnectErrorLoggedOnceWitness ==
    \E w \in Workers, a \in Addrs :
        /\ logged = <<w, a>>
        /\ remote_stats[w][a] = Entry(2, 1)
        /\ open_connections[w] = 1
        /\ Cardinality(ConnsTo(w, a)) = 1

\* worker w returns from its control callback after a failed read, or
\* after reading a byte that is neither 'c' nor 'b'
ReturnsWithoutCommand(w) ==
    /\ pc[w] = "control_cb"
    /\ pc'[w] = "loop"
    /\ \/ pipe' = pipe
       \/ pipe # <<>> /\ Head(pipe) \notin {"c", "b"}

ControlNoiseIgnored ==
    \A w \in Workers : ReturnsWithoutCommand(w) =>
        /\ pipe' = pipe \/ pipe' = Tail(pipe)
        /\ control_watcher'[w]
        /\ ~terminated(w)'
        /\ UNCHANGED <<control_watcher, thread_flags, address_offset,
                       remote_stats, open_connections, total_data_transmitted,
                       conns, bytes_written, process_exited>>

\* C17: a control byte that is neither 'c' nor 'b', and a read that fails
\* or returns nothing, leave the worker's termination flag, Health table,
\* cursor, open_connections, byte totals and connections as they were, and
\* the control watcher started, so that worker still takes later commands.
UnknownBytesAreIgnored == [][ControlNoiseIgnored]_vars

\* an unknown byte was consumed between two 'c' commands, and one worker
\* has made both attempts
UnknownBytesAreIgnoredWitness ==
    /\ sent = <<"c", "x", "c">>
    /\ pipe = <<>>
    /\ \A w \in Workers : pc[w] = "loop" /\ control_watcher[w]
    /\ \E w \in Workers : AttemptsOf(w) = 2

\* a step in which worker w counted an attempt against address a and
\* gave it up: no connection was created and the process goes on
AttemptAbandoned(w, a) ==
    /\ remote_stats'[w][a].connection_attempts
          = remote_stats[w][a].connection_attempts + 1
    /\ conns' = conns
    /\ ~process_exited'

\* C18: an attempt given up because socket() failed, for a reason other
\* than a full socket table, creates no connection, leaves open_connections
\* as it was and counts a failure against the picked address, exactly as
\* an attempt given up on a connect() error does.
AbandonedAttemptCountsFailure ==
    [][\A w \in Workers, a \in Addrs : AttemptAbandoned(w, a) =>
          /\ open_connections' = open_connections
          /\ remote_stats'[w][a].connection_failures
                = remote_stats[w][a].connection_failures + 1]_vars

\* C19: a worker's event loop returns only when its termination flag is
\* set and it owns no connection, so the open_connections it reports at
\* exit is 0; a worker that has not consumed a 'b' has not left its loop,
\* even when it owns no connection.
ExitOnlyWhenDone ==
    \A w \in Workers :
        /\ pc[w] = "exited" =>
              /\ terminated(w)
              /\ ConnsOf(w) = {}
              /\ open_connections[w] = 0
        /\ ~terminated(w) => pc[w] # "exited" /\ control_watcher[w]

\* one worker has left after closing a connection that had written, while
\* another, with no command pending and no connection, is still in its loop
ExitOnlyWhenDoneWitness ==
    \E w, v \in Workers :
        /\ pc[w] = "exited"
        /\ total_data_transmitted[w] > 0
        /\ pipe = <<>>
        /\ ~terminated(v)
        /\ ConnsOf(v) = {}
        /\ pc[v] = "loop"

LiveWithinSuccesses ==
    \A w \in Workers : \A a \in DOMAIN remote_stats[w] :
        /\ Cardinality(ConnsTo(w, a))
              <= remote_stats[w][a].connection_attempts
                    - remote_stats[w][a].connection_failures
        /\ skip_eligible(remote_stats[w][a]) => ConnsTo(w, a) = {}

SkippedStaysUntouched ==
    \A w \in Workers : \A a \in DOMAIN remote_stats[w] :
        (/\ skip_eligible(remote_stats[w][a])
         /\ \E b \in DOMAIN remote_stats[w] : ~skip_eligible(remote_stats[w][b]))
            => remote_stats'[w][a] = remote_stats[w][a]

\* C20: a worker's live connections bound to an address are at most
\* attempts - failures of that address, so a skip-eligible address has no
\* live connection in that worker, and its counters change again only when
\* selection falls back to it because every address is skip-eligible.
SkipEligibleIsQuiet == []LiveWithinSuccesses /\ [][SkippedStaysUntouched]_vars

====
